---- MODULE Spec2Model ----
(***************************************************************************)
(* XORExtentWriter (payload_consumer/xor_extent_writer.cc): the write path *)
(* that turns one install-operation extent into AddXorBlocks and           *)
(* AddRawBlocks calls on the COW writer.                                   *)
(*                                                                         *)
(* The writer is synchronous and single threaded, so one WriteExtent call  *)
(* is one action.  The helpers it calls are operators over a record `m`    *)
(* that carries what the call has done so far:                             *)
(*   m.cow    the calls issued on cow_writer_, in order                     *)
(*   m.reads  the PReadAll calls issued on source_fd_, in order            *)
(*   m.buf    xor_block_data, the scratch vector                           *)
(*   m.io     how many external calls (reads and sink calls) were made     *)
(*   m.why    "" while every step returned true, else the failing branch   *)
(*   m.at     the sub-extent the failing branch was processing             *)
(* Each read and each sink call is recorded with the sub-extent it was     *)
(* made for (sub.list, sub.idx) and the part of it (sub.part): the whole   *)
(* sub-extent, or the prefix or the last block of a clipped one.           *)
(***************************************************************************)
EXTENDS Integers, Sequences, FiniteSets

\* ------------------------------------------------------------------ bounds
\* Block size in bytes: BlockSize() of the writer, fixed at construction.
BlockSize == 2
\* Destination blocks named by requests and by the Lookup are 0..MaxBlock.
MaxBlock == 2
\* Most sub-extents (XOR and replace together) the Lookup returns.
MaxSubExtents == 2
\* Lengths of extents, in blocks.
NumBlocks == 1..2

\* ------------------------------------------------------------- data types
Min(a, b) == IF a < b THEN a ELSE b
Max(a, b) == IF a < b THEN b ELSE a

\* update_metadata Extent {start_block, num_blocks}
ExtentForRange(start_block, num_blocks) ==
    [start_block |-> start_block, num_blocks |-> num_blocks]

EndBlock(e) == e.start_block + e.num_blocks

BlocksOf(e) == e.start_block .. (EndBlock(e) - 1)

\* Extents with at least one block that stay inside blocks 0..MaxBlock.
Extents ==
    {e \in {ExtentForRange(s, n) : s \in 0..MaxBlock, n \in NumBlocks} :
        EndBlock(e) <= MaxBlock + 1}

\* Extents of the requests: they leave room for a sub-extent before them or
\* after them.
InstallExtents == {e \in Extents : e.start_block <= 1}

\* ext2 lies completely inside ext
ExtentContains(ext, ext2) ==
    /\ ext.start_block <= ext2.start_block
    /\ EndBlock(ext2) <= EndBlock(ext)

\* std::bit_xor<unsigned char>: bit by bit over the 8 bits of a byte.
RECURSIVE BitXor(_, _, _)
BitXor(a, b, w) ==
    IF w = 0 THEN 0
    ELSE (((a % 2) + (b % 2)) % 2) + (2 * BitXor(a \div 2, b \div 2, w - 1))

bit_xor(a, b) == BitXor(a, b, 8)

\* New content of a request: byte p (0-based) of the buffer.  Every position
\* holds a different value, so a slice taken at the wrong offset shows.
NewByte(seed, p) == (seed + (7 * (p + 1))) % 256

NewBytes(seed, len) == [i \in 1..len |-> NewByte(seed, i - 1)]

ByteSeeds == {3}

\* Content of the source partition: byte p (0-based).
SourceByte(p) == (101 + (13 * p)) % 256

\* A CowMergeOperation.  An unset extent field reads as the default {0, 0}.
MergeOp(hs, hd, ss, d, off) ==
    [has_src_extent |-> hs, has_dst_extent |-> hd,
     src_extent |-> IF hs THEN ExtentForRange(ss, d.num_blocks)
                    ELSE ExtentForRange(0, 0),
     dst_extent |-> IF hd THEN d ELSE ExtentForRange(0, 0),
     src_offset |-> off]

\* Destination extents of merge operations.
MergeDstExtents == {ExtentForRange(s, 2) : s \in 0..1}

\* The merge operations xor_map_ may hold: one without a source extent, one
\* without a destination extent, and the complete ones.
MergeOps ==
    {MergeOp(FALSE, TRUE, 0, ExtentForRange(0, 2), 0),
     MergeOp(TRUE, FALSE, 0, ExtentForRange(0, 2), 0)}
    \cup {MergeOp(TRUE, TRUE, ss, d, off) :
             ss \in 0..1, d \in MergeDstExtents, off \in 0..(BlockSize - 1)}

\* -------------------------------------------------------------- the state
VARIABLES
    source_fd_,        \* content of the source partition, byte p at p + 1
    partition_size_,   \* configured size of the source partition; 0: unknown
    xor_map_,          \* the merge operation the Lookup holds
    xor_block_data,    \* the writer's scratch vector
    rq,                \* the inputs of the WriteExtent calls made so far
    done               \* the outcome of each WriteExtent call, in call order

vars == <<source_fd_, partition_size_, xor_map_, xor_block_data, rq, done>>

\* Sizes of the source partition: one byte short of a block boundary, and
\* block aligned.
SourceSizes == {(2 * BlockSize) - 1, 2 * BlockSize}

NoSubExtent == [list |-> "", idx |-> 0, part |-> ""]

XorSub(i, part) == [list |-> "xor", idx |-> i, part |-> part]

ReplaceSub(j) == [list |-> "replace", idx |-> j, part |-> "whole"]

\* A call that has done nothing yet and starts with scratch vector buf.
Entered(buf) ==
    [cow |-> <<>>, reads |-> <<>>, buf |-> buf, io |-> 0,
     why |-> "", at |-> NoSubExtent]

Failed(m, why, at) == [m EXCEPT !.why = why, !.at = at]

\* std::vector::resize: keeps the leading elements, zero-fills new ones.
Resize(buf, len) ==
    [i \in 1..len |-> IF i <= Len(buf) THEN buf[i] ELSE 0]

\* utils::PReadAll on source_fd_: the number of bytes a read of len bytes at
\* byte offset off delivers; reading stops at the end of the partition.
BytesRead(off, len) == Min(len, Max(0, Len(source_fd_) - off))

\* Byte p (0-based, possibly negative) relative to the request buffer.  A
\* position outside the buffer is memory the request does not own: mem gives
\* what a read finds in the bytes before the buffer.
StrayAt(mem, k) == IF k \in DOMAIN mem THEN mem[k] ELSE 0

ByteAt(bytes, p, mem) ==
    IF p >= 0 /\ p < Len(bytes) THEN bytes[p + 1] ELSE StrayAt(mem, -p)

\* ---------------------------------------------------------- WriteXorCowOp
\* bytes + boff is the pointer the caller passes; fault is the number of the
\* external call (read or sink call, counted together) that returns failure.
WriteXorCowOp(m, bytes, boff, xor_ext, src_offset, fault, mem, sub) ==
    LET len == BlockSize * xor_ext.num_blocks
        resized == Resize(m.buf, len)
        src_block == src_offset \div BlockSize
        rd == [offset |-> src_offset, length |-> len, sub |-> sub]
        pread_ok == fault # m.io + 1
        bytes_read == IF pread_ok THEN BytesRead(src_offset, len) ELSE 0
        filled == [i \in 1..len |->
                     IF i <= bytes_read THEN source_fd_[src_offset + i]
                     ELSE resized[i]]
        m1 == [m EXCEPT !.buf = filled, !.reads = Append(@, rd), !.io = @ + 1]
        xored == [i \in 1..len |->
                    bit_xor(filled[i], ByteAt(bytes, (boff + i) - 1, mem))]
        op == [kind |-> "xor", new_block_start |-> xor_ext.start_block,
               data |-> xored, size |-> len, old_block |-> src_block,
               offset |-> src_offset % BlockSize, sub |-> sub]
        m2 == [m1 EXCEPT !.buf = xored, !.cow = Append(@, op), !.io = @ + 1]
    IN  IF ~pread_ok THEN Failed(m1, "pread", sub)
        ELSE IF bytes_read # len THEN Failed(m1, "short_read", sub)
        ELSE IF fault = m2.io THEN Failed(m2, "sink", sub)
        ELSE m2

\* --------------------------------------------------------- WriteXorExtent
SrcBlock(xor_ext, merge_op) ==
    (merge_op.src_extent.start_block + xor_ext.start_block)
        - merge_op.dst_extent.start_block

ReadEndOffset(xor_ext, merge_op) ==
    ((SrcBlock(xor_ext, merge_op) + xor_ext.num_blocks) * BlockSize)
        + merge_op.src_offset

IsOutOfBoundRead(xor_ext, merge_op) ==
    /\ ReadEndOffset(xor_ext, merge_op) > partition_size_
    /\ partition_size_ # 0

OobBytes(xor_ext, merge_op) ==
    IF IsOutOfBoundRead(xor_ext, merge_op)
    THEN ReadEndOffset(xor_ext, merge_op) - partition_size_
    ELSE 0

\* Source byte offset of the whole-extent read, and of the prefix read.
SrcReadOffset(xor_ext, merge_op) ==
    (SrcBlock(xor_ext, merge_op) * BlockSize) + merge_op.src_offset

\* Source byte offset of the read for the last block of a clipped extent.
LastBlockReadOffset(xor_ext, merge_op) ==
    ((SrcBlock(xor_ext, merge_op) + xor_ext.num_blocks) - 1) * BlockSize

NonOobExtent(xor_ext) ==
    ExtentForRange(xor_ext.start_block, xor_ext.num_blocks - 1)

\* Mutant: the last block taken one block too far.
LastBlock_OffByOne(xor_ext) ==
    ExtentForRange(xor_ext.start_block + xor_ext.num_blocks, 1)

LastBlock(xor_ext) ==
    ExtentForRange((xor_ext.start_block + xor_ext.num_blocks) - 1, 1)

\* Mutant: an overrun of exactly one block is clipped instead of rejected.
OverflowsBlock_Strict(xor_ext, merge_op) ==
    OobBytes(xor_ext, merge_op) > BlockSize

\* The overrun is a whole block or more: rejected.
OverflowsBlock(xor_ext, merge_op) == OobBytes(xor_ext, merge_op) >= BlockSize

\* Mutant: the last block XOR-ed against the data of the first block.
LastBlockDataOffset_Start(boff, xor_ext) == boff

\* Offset in the request buffer of the last block of the sub-extent whose
\* data starts at boff.
LastBlockDataOffset(boff, xor_ext) ==
    boff + ((xor_ext.num_blocks - 1) * BlockSize)

\* The overrun exceeds the sub-block shift: the writer logs an error and goes
\* on to the clipped write all the same.
OverflowsSrcOffset(xor_ext, merge_op) ==
    OobBytes(xor_ext, merge_op) > merge_op.src_offset

WriteXorExtent(m, bytes, boff, xor_ext, merge_op, fault, mem, i) ==
    IF IsOutOfBoundRead(xor_ext, merge_op)
    THEN IF OverflowsBlock(xor_ext, merge_op)
         THEN Failed(m, "oob", XorSub(i, "whole"))
         ELSE LET non_oob_extent == NonOobExtent(xor_ext)
                  prefix ==
                      IF non_oob_extent.num_blocks > 0
                      THEN WriteXorCowOp(m, bytes, boff, non_oob_extent,
                                         SrcReadOffset(xor_ext, merge_op),
                                         fault, mem, XorSub(i, "prefix"))
                      ELSE m
              IN  IF prefix.why # "" THEN prefix
                  ELSE WriteXorCowOp(
                           prefix, bytes, LastBlockDataOffset(boff, xor_ext),
                           LastBlock(xor_ext),
                           LastBlockReadOffset(xor_ext, merge_op),
                           fault, mem, XorSub(i, "last"))
    ELSE WriteXorCowOp(m, bytes, boff, xor_ext,
                       SrcReadOffset(xor_ext, merge_op), fault, mem,
                       XorSub(i, "whole"))

\* ---------------------------------------------------- WriteReplaceExtents
\* Mutant: every replace sub-extent takes its data from the buffer's start.
ReplaceDataOffset_Zero(ext, extent) == 0

\* Byte offset of a replace sub-extent's data from the start of the request
\* buffer.  ext.start_block - new_block_start is unsigned: for a sub-extent
\* that starts before the request it wraps, and the pointer lands before the
\* buffer (a negative offset here).
ReplaceDataOffset(ext, extent) ==
    (ext.start_block - extent.start_block) * BlockSize

\* Mutant: the containment check compares the sub-extent's start, not its end.
ReplaceEndsOutside_ByStart(ext, extent) ==
    ext.start_block > extent.start_block + extent.num_blocks

ReplaceEndsOutside(ext, extent) ==
    ext.start_block + ext.num_blocks > extent.start_block + extent.num_blocks

RECURSIVE ReplaceLoop(_, _, _, _, _, _, _)
ReplaceLoop(m, replace_extents, extent, bytes, fault, mem, j) ==
    IF j > Len(replace_extents) THEN m
    ELSE LET ext == replace_extents[j]
             off == ReplaceDataOffset(ext, extent)
             len == ext.num_blocks * BlockSize
             op == [kind |-> "raw", new_block_start |-> ext.start_block,
                    data |-> [i \in 1..len |-> ByteAt(bytes, (off + i) - 1, mem)],
                    size |-> len, old_block |-> 0, offset |-> 0,
                    sub |-> ReplaceSub(j)]
             m1 == [m EXCEPT !.cow = Append(@, op), !.io = @ + 1]
         IN  IF ReplaceEndsOutside(ext, extent)
             THEN Failed(m, "replace_outside", ReplaceSub(j))
             ELSE IF fault = m1.io THEN Failed(m1, "sink", ReplaceSub(j))
             ELSE ReplaceLoop(m1, replace_extents, extent, bytes, fault,
                              mem, j + 1)

WriteReplaceExtents(m, replace_extents, extent, bytes, fault, mem) ==
    ReplaceLoop(m, replace_extents, extent, bytes, fault, mem, 1)

\* ------------------------------------------------------------ WriteExtent
\* Mutant: a sub-extent without merge operation is skipped silently.
OnMissingMergeOp_Skip(m, i) == m

\* Get found no merge operation for XOR sub-extent i: the call fails.
OnMissingMergeOp(m, i) == Failed(m, "no_merge_op", XorSub(i, "whole"))

\* Byte offset of an XOR sub-extent's data in the request buffer.
XorDataOffset(xor_ext, extent) ==
    (xor_ext.start_block - extent.start_block) * BlockSize

\* One pass of the loop over the XOR sub-extents.
XorStep(m, r, mem, i) ==
    LET xor_ext == r.xor_extents[i]
        merge_op == xor_map_
        sub == XorSub(i, "whole")
    IN  IF ~r.has_merge_op[i] THEN OnMissingMergeOp(m, i)
        ELSE IF ~merge_op.has_src_extent THEN Failed(m, "no_src_extent", sub)
        ELSE IF ~merge_op.has_dst_extent THEN Failed(m, "no_dst_extent", sub)
        ELSE IF ~ExtentContains(r.extent, xor_ext)
             THEN Failed(m, "xor_outside_extent", sub)
        ELSE IF ~ExtentContains(merge_op.dst_extent, xor_ext)
             THEN Failed(m, "xor_outside_merge_op", sub)
        ELSE WriteXorExtent(m, r.bytes, XorDataOffset(xor_ext, r.extent),
                            xor_ext, merge_op, r.fault, mem, i)

RECURSIVE XorLoop(_, _, _, _)
XorLoop(m, r, mem, i) ==
    IF i > Len(r.xor_extents) THEN m
    ELSE LET m1 == XorStep(m, r, mem, i)
         IN  IF m1.why # "" THEN m1 ELSE XorLoop(m1, r, mem, i + 1)

WriteExtent(buf, r, mem) ==
    LET m == XorLoop(Entered(buf), r, mem, 1)
    IN  IF m.why # "" THEN m
        ELSE WriteReplaceExtents(m, r.replace_extents, r.extent, r.bytes,
                                 r.fault, mem)

\* What a WriteExtent call leaves behind: its return value, and the calls it
\* issued.
Outcome(m) ==
    [ret |-> m.why = "", why |-> m.why, at |-> m.at,
     cow |-> m.cow, reads |-> m.reads]

\* --------------------------------------------------------------- requests
\* What the Lookup answers for one request: the XOR sub-extents, whether Get
\* finds the merge operation for each, and the replace sub-extents.  Get is a
\* function of the extent: equal sub-extents get equal answers.
LookupsOf(k, j) ==
    {l \in [xor_extents : [1..k -> Extents],
            has_merge_op : [1..k -> BOOLEAN],
            replace_extents : [1..j -> Extents]] :
        \A i, h \in 1..k :
            l.xor_extents[i] = l.xor_extents[h]
                => l.has_merge_op[i] = l.has_merge_op[h]}

\* Values a read outside the request buffer may find.
StrayBytes == {0, 255}

\* The request reads outside its buffer only for a replace sub-extent that
\* starts before the request extent, and then at most back to block 0.
ReadsStray(r) ==
    \E j \in 1..Len(r.replace_extents) :
        r.replace_extents[j].start_block < r.extent.start_block

Strays(r) ==
    [1..(IF ReadsStray(r) THEN r.extent.start_block * BlockSize ELSE 0)
        -> StrayBytes]

NoRequest ==
    [extent |-> ExtentForRange(0, 0), bytes |-> <<>>, xor_extents |-> <<>>,
     has_merge_op |-> <<>>, replace_extents |-> <<>>, fault |-> 0]

Request(extent, seed, l, fault) ==
    [extent |-> extent,
     bytes |-> NewBytes(seed, extent.num_blocks * BlockSize),
     xor_extents |-> l.xor_extents, has_merge_op |-> l.has_merge_op,
     replace_extents |-> l.replace_extents, fault |-> fault]

\* ---------------------------------------------------------------- actions
Init ==
    /\ \E n \in SourceSizes :
          /\ source_fd_ = [i \in 1..n |-> SourceByte(i - 1)]
          /\ partition_size_ \in {0, n}
    /\ xor_map_ \in MergeOps
    /\ xor_block_data = <<>>
    /\ rq = NoRequest
    /\ done = <<>>

\* The first WriteExtent call on the writer, for any request.  fault is the
\* external call that fails, among those the call gets to make.
Call ==
    /\ done = <<>>
    /\ \E extent \in InstallExtents, seed \in ByteSeeds,
          k \in 0..MaxSubExtents, j \in 0..MaxSubExtents :
          /\ k + j <= MaxSubExtents
          /\ \E l \in LookupsOf(k, j) :
                LET r0 == Request(extent, seed, l, 0)
                IN  \E mem \in Strays(r0) :
                      \E fault \in 0..WriteExtent(xor_block_data, r0, mem).io :
                          LET r == [r0 EXCEPT !.fault = fault]
                              m == WriteExtent(xor_block_data, r, mem)
                          IN  /\ rq' = r
                              /\ xor_block_data' = m.buf
                              /\ done' = <<Outcome(m)>>
    /\ UNCHANGED <<source_fd_, partition_size_, xor_map_>>

\* WriteExtent called again on the same writer with the same inputs.
CallAgain ==
    /\ Len(done) = 1
    /\ \E mem \in Strays(rq) :
          LET m == WriteExtent(xor_block_data, rq, mem)
          IN  /\ xor_block_data' = m.buf
              /\ done' = Append(done, Outcome(m))
    /\ UNCHANGED <<source_fd_, partition_size_, xor_map_, rq>>

Next == Call

Spec == Init /\ [][Next]_vars

NextTwice == Call \/ CallAgain

SpecTwice == Init /\ [][NextTwice]_vars

\* ================================================================ claims
Calls == 1..Len(done)

\* The sink calls, and the reads, a call made for one sub-extent.
OpsFor(o, list, idx) ==
    SelectSeq(o.cow, LAMBDA op : op.sub.list = list /\ op.sub.idx = idx)

ReadsFor(o, list, idx) ==
    SelectSeq(o.reads, LAMBDA rd : rd.sub.list = list /\ rd.sub.idx = idx)

Within(ext, extent) == BlocksOf(ext) \subseteq BlocksOf(extent)

\* The destination blocks a sink call writes.
OpBlocks(op) ==
    op.new_block_start .. ((op.new_block_start + (op.size \div BlockSize)) - 1)

\* len bytes of the request buffer from byte offset off.
Slice(bytes, off, len) == [i \in 1..len |-> bytes[off + i]]

\* The XOR and replace sub-extents of the request tile its extent exactly.
Tiles(r) ==
    LET subs == r.xor_extents \o r.replace_extents
    IN  /\ \A k \in 1..Len(subs) : Within(subs[k], r.extent)
        /\ \A b \in BlocksOf(r.extent) :
              Cardinality({k \in 1..Len(subs) : b \in BlocksOf(subs[k])}) = 1

\* ------------------------------------------------------------------- C1
\* C1: a successful WriteExtent whose Lookup sub-extents tile the request
\* extent exactly issues sink calls whose destination block ranges cover
\* every block of the extent exactly once and no other block, also when an
\* XOR sub-extent is split into a prefix op and a last-block op.
C1_CoversExtentOnce ==
    \A c \in Calls :
        (done[c].ret /\ Tiles(rq)) =>
            /\ \A k \in 1..Len(done[c].cow) :
                  /\ done[c].cow[k].size % BlockSize = 0
                  /\ OpBlocks(done[c].cow[k]) \subseteq BlocksOf(rq.extent)
            /\ \A b \in BlocksOf(rq.extent) :
                  Cardinality({k \in 1..Len(done[c].cow) :
                                  b \in OpBlocks(done[c].cow[k])}) = 1

C1_Witness ==
    \E c \in Calls :
        /\ done[c].ret /\ Tiles(rq)
        /\ \E k \in 1..Len(done[c].cow) : done[c].cow[k].sub.part = "prefix"
        /\ \E k \in 1..Len(done[c].cow) : done[c].cow[k].sub.part = "last"

\* ------------------------------------------------------------------- C2
\* C2: for every AddXorBlocks call, XOR-ing the recorded data with the source
\* bytes at src_block * block_size + src_sub_block_offset gives the request's
\* new bytes for the op's destination blocks.
C2_XorRoundTrip ==
    \A c \in Calls : \A k \in 1..Len(done[c].cow) :
        LET op == done[c].cow[k]
            src == (op.old_block * BlockSize) + op.offset
            dst == (op.new_block_start - rq.extent.start_block) * BlockSize
        IN  op.kind = "xor" =>
                /\ Len(op.data) = op.size
                /\ src >= 0 /\ src + op.size <= Len(source_fd_)
                /\ dst >= 0 /\ dst + op.size <= Len(rq.bytes)
                /\ \A i \in 1..op.size :
                      bit_xor(op.data[i], source_fd_[src + i]) = rq.bytes[dst + i]

C2_Witness ==
    \E c \in Calls :
        /\ done[c].ret
        /\ \E k \in 1..Len(done[c].cow) :
              /\ done[c].cow[k].sub.part = "prefix"
              /\ done[c].cow[k].offset # 0
        /\ \E k \in 1..Len(done[c].cow) :
              /\ done[c].cow[k].sub.part = "last"
              /\ done[c].cow[k].new_block_start > rq.extent.start_block

\* ------------------------------------------------------------------- C3
\* The reads that violate C3 are those of the sub-extents whose overrun
\* exceeds the sub-block shift.
LastBlockReadOutOfBoundsOnlyPastShift ==
    \A c \in Calls : \A k \in 1..Len(done[c].reads) :
        LET rd == done[c].reads[k]
        IN  (rd.sub.part = "last"
             /\ ~OverflowsSrcOffset(rq.xor_extents[rd.sub.idx], xor_map_))
                => rd.offset + rd.length <= partition_size_

\* C3: whenever an XOR sub-extent overruns a known partition size by less
\* than a block, the read for its last block is one block at
\* (src_block + num_blocks - 1) * block_size, and that offset is at most
\* partition_size - block_size.
C3_LastBlockReadInBounds ==
    \A c \in Calls : \A k \in 1..Len(done[c].reads) :
        LET rd == done[c].reads[k]
            x == rq.xor_extents[rd.sub.idx]
            src_block == (xor_map_.src_extent.start_block + x.start_block)
                            - xor_map_.dst_extent.start_block
        IN  rd.sub.part = "last" =>
                /\ rd.length = BlockSize
                /\ rd.offset = ((src_block + x.num_blocks) - 1) * BlockSize
                /\ rd.offset <= partition_size_ - BlockSize

\* ------------------------------------------------------------------- C4
\* XOR sub-extent i passes the checks WriteExtent makes before delegating.
PassesChecks(r, i) ==
    /\ r.has_merge_op[i]
    /\ xor_map_.has_src_extent /\ xor_map_.has_dst_extent
    /\ Within(r.xor_extents[i], r.extent)
    /\ Within(r.xor_extents[i], xor_map_.dst_extent)

\* Bytes by which the read for XOR sub-extent x ends past the partition.
Overrun(x) ==
    (((((xor_map_.src_extent.start_block + x.start_block)
          - xor_map_.dst_extent.start_block) + x.num_blocks) * BlockSize)
        + xor_map_.src_offset) - partition_size_

\* C4: with a known partition size, an XOR sub-extent that overruns it by a
\* block or more makes the call fail, and neither a read nor a sink call is
\* issued for that sub-extent.
C4_OverrunRejected ==
    \A c \in Calls : \A i \in 1..Len(rq.xor_extents) :
        (/\ PassesChecks(rq, i)
         /\ partition_size_ # 0
         /\ Overrun(rq.xor_extents[i]) >= BlockSize) =>
            /\ ~done[c].ret
            /\ OpsFor(done[c], "xor", i) = <<>>
            /\ ReadsFor(done[c], "xor", i) = <<>>
            /\ done[c].at.list = "xor" /\ done[c].at.idx <= i
            /\ done[c].at.idx = i => done[c].why = "oob"

C4_Witness ==
    \E c \in Calls :
        /\ done[c].why = "oob"
        /\ Overrun(rq.xor_extents[done[c].at.idx]) = BlockSize

\* ------------------------------------------------------------------- C5
\* C5: an XOR sub-extent for which Get returns no merge operation makes the
\* call fail; no sink call is issued for it, for a later XOR sub-extent or
\* for a replace sub-extent: only calls for earlier XOR sub-extents remain.
C5_MissingMergeOpFails ==
    \A c \in Calls : \A i \in 1..Len(rq.xor_extents) :
        ~rq.has_merge_op[i] =>
            /\ ~done[c].ret
            /\ \A k \in 1..Len(done[c].cow) :
                  /\ done[c].cow[k].kind = "xor"
                  /\ done[c].cow[k].sub.list = "xor"
                  /\ done[c].cow[k].sub.idx < i
            /\ \A k \in 1..Len(done[c].reads) : done[c].reads[k].sub.idx < i

C5_Witness ==
    \E c \in Calls :
        /\ done[c].why = "no_merge_op"
        /\ done[c].at.idx = 2
        /\ done[c].cow # <<>>

\* ------------------------------------------------------------------- C6
\* C6 as stated: a request whose sub-extents do not tile its extent exactly
\* fails.
C6_TilingViolationFails ==
    \A c \in Calls : ~Tiles(rq) => ~done[c].ret

\* C6 amended: a request fails when some XOR sub-extent is not fully inside
\* the request extent, or some replace sub-extent ends after the end of the
\* request extent.
C6_ContainmentViolationFails ==
    \A c \in Calls :
        (\/ \E i \in 1..Len(rq.xor_extents) :
               ~Within(rq.xor_extents[i], rq.extent)
         \/ \E j \in 1..Len(rq.replace_extents) :
               EndBlock(rq.replace_extents[j]) > EndBlock(rq.extent))
            => ~done[c].ret

C6_Witness ==
    \E c \in Calls :
        /\ done[c].why = "replace_outside"
        /\ done[c].cow # <<>>

\* ------------------------------------------------------------------- C7
\* C7: a replace sub-extent that is not fully inside the request extent makes
\* the call fail with no AddRawBlocks call for it; for one that is inside,
\* the bytes forwarded are the request buffer's from offset
\* (ext.start_block - extent.start_block) * block_size.
C7_ReplaceContained ==
    \A c \in Calls : \A j \in 1..Len(rq.replace_extents) :
        LET ext == rq.replace_extents[j]
            ops == OpsFor(done[c], "replace", j)
        IN  IF Within(ext, rq.extent)
            THEN \A k \in 1..Len(ops) :
                    ops[k].data =
                        Slice(rq.bytes,
                              (ext.start_block - rq.extent.start_block)
                                  * BlockSize,
                              ext.num_blocks * BlockSize)
            ELSE ~done[c].ret /\ ops = <<>>

\* ------------------------------------------------------------------- C8
\* What an AddRawBlocks call for replace sub-extent ext is keyed by.
RawKeyed(op, ext) ==
    /\ op.kind = "raw"
    /\ op.new_block_start = ext.start_block
    /\ op.size = ext.num_blocks * BlockSize
    /\ Len(op.data) = op.size

RawCarries(op, ext) ==
    op.data = Slice(rq.bytes,
                    (ext.start_block - rq.extent.start_block) * BlockSize,
                    ext.num_blocks * BlockSize)

\* C8 as stated: a request with no XOR sub-extent issues no read and exactly
\* one AddRawBlocks call per replace sub-extent, in Lookup order, each with
\* the unmodified request bytes of its blocks.
C8_ReplaceOnlyForwardsAll ==
    \A c \in Calls :
        rq.xor_extents = <<>> =>
            /\ done[c].reads = <<>>
            /\ Len(done[c].cow) = Len(rq.replace_extents)
            /\ \A k \in 1..Len(done[c].cow) :
                  /\ RawKeyed(done[c].cow[k], rq.replace_extents[k])
                  /\ Within(rq.replace_extents[k], rq.extent)
                  /\ RawCarries(done[c].cow[k], rq.replace_extents[k])

\* C8 amended: a request with no XOR sub-extent issues no read and no
\* AddXorBlocks call; its AddRawBlocks calls are one per replace sub-extent
\* in Lookup order, for all of them when the call succeeds and for a leading
\* part of them when it fails; each is keyed by the sub-extent's start block
\* and length, and each for a sub-extent inside the request extent carries
\* the unmodified request bytes of its blocks.
C8_ReplaceOnlyForwardsInOrder ==
    \A c \in Calls :
        rq.xor_extents = <<>> =>
            /\ done[c].reads = <<>>
            /\ Len(done[c].cow) <= Len(rq.replace_extents)
            /\ done[c].ret => Len(done[c].cow) = Len(rq.replace_extents)
            /\ \A k \in 1..Len(done[c].cow) :
                  /\ RawKeyed(done[c].cow[k], rq.replace_extents[k])
                  /\ Within(rq.replace_extents[k], rq.extent)
                        => RawCarries(done[c].cow[k], rq.replace_extents[k])

C8_Witness ==
    \E c \in Calls :
        /\ rq.xor_extents = <<>>
        /\ done[c].ret
        /\ Len(done[c].cow) = 2
        /\ \A j \in 1..2 : Within(rq.replace_extents[j], rq.extent)
        /\ rq.replace_extents[2].start_block > rq.extent.start_block

\* ------------------------------------------------------------------- C9
\* C9: a second WriteExtent call with the same inputs returns the same value
\* and issues the same sequence of reads and sink calls as the first.
C9_SecondCallIdentical ==
    Len(done) = 2 => done[1] = done[2]

\* The same, for the requests that stay inside their buffer.
RepeatsWithoutStrayReads ==
    (Len(done) = 2 /\ ~ReadsStray(rq)) => done[1] = done[2]

\* ------------------------------------------------------------------ C10
\* Where a sink call stands in the fixed order: XOR sub-extents before
\* replace sub-extents, each list in Lookup order, a prefix before its last
\* block.
Rank(sub) ==
    <<IF sub.list = "xor" THEN 0 ELSE 1, sub.idx,
      IF sub.part = "last" THEN 1 ELSE 0>>

Before(a, b) ==
    \/ a[1] < b[1]
    \/ a[1] = b[1] /\ a[2] < b[2]
    \/ a[1] = b[1] /\ a[2] = b[2] /\ a[3] < b[3]

\* The sink calls that forward XOR sub-extent i in full: one call for all of
\* it, or one for all blocks but the last (when there are any) and one for
\* the last block.
XorForwarded(o, r, i) ==
    LET x == r.xor_extents[i]
        ops == OpsFor(o, "xor", i)
        Is(op, start, n) ==
            /\ op.kind = "xor"
            /\ op.new_block_start = start
            /\ op.size = n * BlockSize
    IN  \/ Len(ops) = 1 /\ Is(ops[1], x.start_block, x.num_blocks)
        \/ /\ x.num_blocks = 1
           /\ Len(ops) = 1 /\ Is(ops[1], x.start_block, 1)
        \/ /\ x.num_blocks > 1
           /\ Len(ops) = 2
           /\ Is(ops[1], x.start_block, x.num_blocks - 1)
           /\ Is(ops[2], (x.start_block + x.num_blocks) - 1, 1)

ReplaceForwarded(o, r, j) ==
    LET ops == OpsFor(o, "replace", j)
    IN  Len(ops) = 1 /\ RawKeyed(ops[1], r.replace_extents[j])

\* Sub-extent (list, idx) comes before the sub-extent the call failed at.
BeforeFailure(o, list, idx) ==
    Before(<<IF list = "xor" THEN 0 ELSE 1, idx, 0>>,
           <<IF o.at.list = "xor" THEN 0 ELSE 1, o.at.idx, 0>>)

\* A condition of XOR sub-extent i that the call must fail on.
XorFatal(r, i) ==
    \/ ~r.has_merge_op[i]
    \/ ~xor_map_.has_src_extent \/ ~xor_map_.has_dst_extent
    \/ ~Within(r.xor_extents[i], r.extent)
    \/ ~Within(r.xor_extents[i], xor_map_.dst_extent)
    \/ partition_size_ # 0 /\ Overrun(r.xor_extents[i]) >= BlockSize

\* Sink calls are issued in the fixed order, none twice; a call returns
\* success only with every sub-extent forwarded; a failing call has forwarded
\* every sub-extent before the one it failed at and issues nothing for a
\* later one, and a failed source read or sink call is the last one made; a
\* condition the writer checks makes the call fail at that sub-extent or
\* earlier.
FailsFastInOrder ==
    \A c \in Calls :
        LET o == done[c]
            nx == Len(rq.xor_extents)
            nr == Len(rq.replace_extents)
        IN  /\ \A k \in 1..(Len(o.cow) - 1) :
                  Before(Rank(o.cow[k].sub), Rank(o.cow[k + 1].sub))
            /\ \A k \in 1..Len(o.cow) :
                  o.cow[k].sub.idx \in
                      1..(IF o.cow[k].sub.list = "xor" THEN nx ELSE nr)
            /\ o.ret =>
                  /\ \A i \in 1..nx : XorForwarded(o, rq, i)
                  /\ \A j \in 1..nr : ReplaceForwarded(o, rq, j)
            /\ ~o.ret =>
                  /\ o.at.list \in {"xor", "replace"}
                  /\ o.at.idx \in 1..(IF o.at.list = "xor" THEN nx ELSE nr)
                  /\ \A i \in 1..nx :
                        IF BeforeFailure(o, "xor", i)
                        THEN XorForwarded(o, rq, i)
                        ELSE i # o.at.idx => OpsFor(o, "xor", i) = <<>>
                  /\ \A j \in 1..nr :
                        IF BeforeFailure(o, "replace", j)
                        THEN ReplaceForwarded(o, rq, j)
                        ELSE (o.at.list = "xor" \/ j # o.at.idx)
                                => OpsFor(o, "replace", j) = <<>>
                  /\ o.why = "sink" =>
                        /\ o.cow # <<>>
                        /\ o.cow[Len(o.cow)].sub.list = o.at.list
                        /\ o.cow[Len(o.cow)].sub.idx = o.at.idx
                  /\ o.why \in {"pread", "short_read"} =>
                        /\ o.reads # <<>>
                        /\ o.reads[Len(o.reads)].sub = o.at
                        /\ \A k \in 1..Len(o.cow) :
                              Before(Rank(o.cow[k].sub), Rank(o.at))
                  /\ o.why \notin {"sink", "pread", "short_read"} =>
                        /\ OpsFor(o, o.at.list, o.at.idx) = <<>>
                        /\ ReadsFor(o, o.at.list, o.at.idx) = <<>>
            /\ \A i \in 1..nx :
                  XorFatal(rq, i) =>
                      ~o.ret /\ o.at.list = "xor" /\ o.at.idx <= i
            /\ \A j \in 1..nr :
                  EndBlock(rq.replace_extents[j]) > EndBlock(rq.extent) =>
                      ~o.ret /\ (o.at.list = "xor" \/ o.at.idx <= j)
            /\ \A k \in 1..Len(o.reads) :
                  o.reads[k].offset + o.reads[k].length > Len(source_fd_) =>
                      ~o.ret /\ k = Len(o.reads)
            /\ rq.fault # 0 => ~o.ret

\* C10: sink calls are issued in the fixed order and a call fails at the
\* first fatal condition, issuing nothing after it; a replace sub-extent that
\* is not fully inside the request extent is such a condition.
C10_FailFastInOrder ==
    /\ FailsFastInOrder
    /\ \A c \in Calls : \A j \in 1..Len(rq.replace_extents) :
          ~Within(rq.replace_extents[j], rq.extent) =>
              /\ ~done[c].ret
              /\ done[c].at.list = "xor" \/ done[c].at.idx <= j

====
